---- MODULE Spec2Model ----
(***************************************************************************)
(* A model of pitstop (poller.go): DidChange, Run and Poller.Poll.         *)
(*                                                                         *)
(* Time is a natural number: 0 is the zero time.Time, the clock `now`      *)
(* starts at 1 and only moves forward.  A write to a file stamps it with   *)
(* the clock's value.  The file system is a map from paths (sequences of   *)
(* names, <<>> being the watched directory itself) to entries.             *)
(***************************************************************************)
EXTENDS Naturals, Sequences, FiniteSets

VARIABLES
    fs,         \* the file tree: path -> [kind, mtime, err]
    now,        \* the wall clock read by time.Now() and by file writes
    p,          \* the Poller: [Dir, Pre, Run, Post]
    pc,         \* where Poll's control thread is
    stop,       \* Poll's local `stop`: 0 is nil, otherwise a stop capability
    err,        \* Poll's local `err`
    lastBuild,  \* Poll's local `lastBuild` (the watermark)
    i,          \* index of the step Run's current loop is about to invoke
    runStop,    \* Run's local `stop`
    ret,        \* what Run returned: [stop, err]
    calls,      \* the calls made so far by the pipeline execution in progress
    stopCount,  \* how many times each stop capability has been invoked
    live,       \* the stop capabilities whose process is running
    nextCap,    \* the next process to be started
    since,      \* DidChange's argument in the stand-alone check
    got,        \* DidChange's result in the stand-alone check
    written     \* the files written since the scan that began the pipeline execution in progress

vars == <<fs, now, p, pc, stop, err, lastBuild, i, runStop, ret, calls,
          stopCount, live, nextCap, since, got, written>>

pollVars == <<p, pc, stop, err, lastBuild, i, runStop, ret, calls,
              stopCount, live, nextCap>>

(***************************************************************************)
(* Bounds                                                                  *)
(***************************************************************************)
MaxTime == 3
MaxEntries == 2
MaxSteps == 2
MaxCaps == 2
MaxNodes == 3

Times == 1..MaxTime

\* DidChange has not been called yet
NotCalled == [called |-> FALSE, changed |-> FALSE]

(***************************************************************************)
(* The file tree                                                           *)
(***************************************************************************)
\* What os.Lstat and the directory read report for one entry.  kind "other"
\* is any entry that is neither a directory nor a regular file (a symbolic
\* link, a socket, a device).  err "lstat" is an entry whose Lstat fails,
\* err "readdir" a directory whose names cannot be read.
Kinds == {"dir", "file", "other"}

Entry(kind, mtime, e) == [kind |-> kind, mtime |-> mtime, err |-> e]

IsDir(info) == info.kind = "dir"

ModTime(info) == info.mtime

\* After taken as "not before"
AfterOrEqual(t, u) == t >= u

\* time.Time.After
After(t, u) == t > u

Parent(path) == SubSeq(path, 1, Len(path) - 1)

ChildNames(tree, path) ==
    {q[Len(q)] : q \in {r \in DOMAIN tree : Len(r) = Len(path) + 1 /\ Parent(r) = path}}

RECURSIVE SortedNames(_)
\* readDirNames: the names of a directory, sorted
SortedNames(S) ==
    IF S = {} THEN <<>>
    ELSE LET m == CHOOSE x \in S : \A y \in S : x <= y
         IN  <<m>> \o SortedNames(S \ {m})

\* WalkFn without the test of info.IsDir()
WalkFnNoDirTest(changed, info, e, sinceT) ==
    IF e # "none" THEN [changed |-> changed, failed |-> TRUE]
    ELSE IF After(ModTime(info), sinceT) THEN [changed |-> TRUE, failed |-> FALSE]
    ELSE [changed |-> changed, failed |-> FALSE]

\* The function DidChange hands to filepath.Walk.  It returns the new value
\* of the captured variable `changed` and whether it returned a non-nil error.
WalkFn(changed, info, e, sinceT) ==
    IF e # "none" THEN [changed |-> changed, failed |-> TRUE]
    ELSE IF IsDir(info) THEN [changed |-> changed, failed |-> FALSE]
    ELSE IF After(ModTime(info), sinceT) THEN [changed |-> TRUE, failed |-> FALSE]
    ELSE [changed |-> changed, failed |-> FALSE]

RECURSIVE walk(_, _, _, _), walkNames(_, _, _, _, _)
\* filepath.walk: the function is called on the entry; a directory's names
\* are read and walked in sorted order; a non-nil error from the function
\* ends the whole walk (DidChange's function never returns SkipDir).
walk(tree, path, sinceT, changed) ==
    LET info == tree[path]
    IN  IF ~IsDir(info) THEN WalkFn(changed, info, "none", sinceT)
        ELSE LET r == WalkFn(changed, info, info.err, sinceT)
             IN  IF info.err # "none" \/ r.failed THEN r
                 ELSE walkNames(tree, path, SortedNames(ChildNames(tree, path)),
                                sinceT, r.changed)

walkNames(tree, path, names, sinceT, changed) ==
    IF names = <<>> THEN [changed |-> changed, failed |-> FALSE]
    ELSE LET filename == Append(path, Head(names))
             info == tree[filename]
             r == IF info.err = "lstat"
                  THEN WalkFn(changed, info, "lstat", sinceT)
                  ELSE walk(tree, filename, sinceT, changed)
         IN  IF r.failed THEN r
             ELSE walkNames(tree, path, Tail(names), sinceT, r.changed)

\* filepath.Walk(dir, fn).  The tree is the one rooted at "."; Lstat of the
\* empty path fails.
Walk(tree, dir, sinceT, changed) ==
    IF dir = "" \/ tree[<<>>].err = "lstat"
    THEN WalkFn(changed, tree[<<>>], "lstat", sinceT)
    ELSE walk(tree, <<>>, sinceT, changed)

DidChange(tree, dir, sinceT) == Walk(tree, dir, sinceT, FALSE).changed

(***************************************************************************)
(* Run and Poll                                                            *)
(***************************************************************************)
Nil == [phase |-> "nil", idx |-> 0]

\* The error a failing step returns: BuildCommand's and RunCommand's errors
\* name the command, here the phase and the position of the step.
Error(phase, idx) == [phase |-> phase, idx |-> idx]

NoRet == [stop |-> 0, err |-> Nil, set |-> FALSE]

Return(s, e) == [stop |-> s, err |-> e, set |-> TRUE]

Call(op, idx, ok) == [op |-> op, idx |-> idx, ok |-> ok]

\* Invoking the function RunCommand returned: cmd.Process.Kill()
StopCalled(c) ==
    /\ stopCount' = [stopCount EXCEPT ![c] = @ + 1]
    /\ live' = live \ {c}

\* Poll, lines 122-125: the local `dir`, "." when p.Dir is empty.  Nothing
\* in Poll reads it after that: line 132 passes p.Dir to DidChange.
DefaultDir(d) == IF d = "" THEN "." ELSE d

\* PollScan going on to the build whatever DidChange reports
PollScanAlways ==
    /\ pc = "scan"
    /\ pc' = "changed"
    /\ UNCHANGED <<fs, now, p, stop, err, lastBuild, i, runStop, ret, calls,
                   stopCount, live, nextCap, since, got, written>>

\* Poll, lines 132-135: nothing changed, sleep and scan again; otherwise go on
PollScan ==
    /\ pc = "scan"
    /\ pc' = IF DidChange(fs, p.Dir, lastBuild) THEN "changed" ELSE "sleepIdle"
    /\ UNCHANGED <<fs, now, p, stop, err, lastBuild, i, runStop, ret, calls,
                   stopCount, live, nextCap, since, got, written>>

\* time.Sleep(scanInt) at line 133 or at line 146, then the next iteration
PollSleep ==
    /\ pc \in {"sleepIdle", "sleepBuilt"}
    /\ pc' = "scan"
    /\ UNCHANGED <<fs, now, p, stop, err, lastBuild, i, runStop, ret, calls,
                   stopCount, live, nextCap, since, got, written>>

\* StopRunningApp leaving the running app alone
StopRunningAppSkipped ==
    /\ calls' = <<>>
    /\ UNCHANGED <<stopCount, live>>

\* StopRunningApp calling stop only while the app is still running
StopRunningAppIfLive ==
    IF stop # 0 /\ stop \in live
    THEN /\ StopCalled(stop)
         /\ calls' = <<Call("pollstop", stop, TRUE)>>
    ELSE /\ calls' = <<>>
         /\ UNCHANGED <<stopCount, live>>

\* Poll, lines 136-139: the running app, if there is one, is stopped
StopRunningApp ==
    IF stop # 0
    THEN /\ StopCalled(stop)
         /\ calls' = <<Call("pollstop", stop, TRUE)>>
    ELSE /\ calls' = <<>>
         /\ UNCHANGED <<stopCount, live>>

\* PollStop calling Run without first stopping the running app
PollStopLate ==
    /\ pc = "changed"
    /\ calls' = <<>>
    /\ UNCHANGED <<stopCount, live>>
    /\ i' = 1
    /\ runStop' = 0
    /\ pc' = IF p.Pre = 0 THEN "run" ELSE "pre"
    /\ UNCHANGED <<fs, now, p, stop, err, lastBuild, ret, nextCap, since, got, written>>

\* Poll, lines 136-141: stop the running app, then call Run
PollStop ==
    /\ pc = "changed"
    /\ StopRunningApp
    /\ i' = 1
    /\ runStop' = 0
    /\ pc' = IF p.Pre = 0 THEN "run" ELSE "pre"
    /\ UNCHANGED <<fs, now, p, stop, err, lastBuild, ret, nextCap, since, got, written>>

\* PreFailed with the error ignored: the loop goes on as after a success
PreFailedIgnored ==
    /\ i' = IF i = p.Pre THEN 1 ELSE i + 1
    /\ pc' = IF i = p.Pre THEN "run" ELSE "pre"
    /\ UNCHANGED ret

\* Run, lines 81-83: a pre BuildFunc returned an error
PreFailed ==
    /\ ret' = Return(0, Error("pre", i))
    /\ pc' = "returned"
    /\ UNCHANGED i

\* PreSucceeded leaving the pre loop after its first BuildFunc
PreSucceededOnce ==
    /\ i' = 1
    /\ pc' = "run"
    /\ UNCHANGED ret

\* Run, lines 79-80 and 84: a pre BuildFunc returned nil, the loop goes on
PreSucceeded ==
    /\ i' = IF i = p.Pre THEN 1 ELSE i + 1
    /\ pc' = IF i = p.Pre THEN "run" ELSE "pre"
    /\ UNCHANGED ret

\* Run, lines 79-84: one pre BuildFunc is called
RunPre ==
    /\ pc = "pre"
    /\ \E ok \in BOOLEAN :
         /\ calls' = Append(calls, Call("pre", i, ok))
         /\ IF ok THEN PreSucceeded ELSE PreFailed
    /\ UNCHANGED <<fs, now, p, stop, err, lastBuild, runStop, stopCount, live,
                   nextCap, since, got, written>>

\* ReturnStop returning no stop function
ReturnStopNil(s) ==
    /\ ret' = Return(0, Nil)
    /\ pc' = "returned"

\* Run, line 96: every step succeeded
ReturnStop(s) ==
    /\ ret' = Return(s, Nil)
    /\ pc' = "returned"

\* RunFailed with the error ignored: Run goes on to the post BuildFuncs
RunFailedIgnored ==
    /\ calls' = Append(calls, Call("run", 0, FALSE))
    /\ IF p.Post = 0
       THEN /\ ret' = Return(0, Nil)
            /\ pc' = "returned"
       ELSE /\ pc' = "post"
            /\ UNCHANGED ret
    /\ UNCHANGED <<runStop, live, nextCap>>

\* Run, lines 86-88: the RunFunc returned an error
RunFailed ==
    /\ calls' = Append(calls, Call("run", 0, FALSE))
    /\ ret' = Return(0, Error("run", 0))
    /\ pc' = "returned"
    /\ UNCHANGED <<runStop, live, nextCap>>

\* Run, line 85 and RunCommand, lines 61-70: the command is started and the
\* function that kills it is kept in `stop`; then the post loop, or line 96
RunStarted ==
    /\ nextCap <= MaxCaps
    /\ runStop' = nextCap
    /\ live' = live \cup {nextCap}
    /\ nextCap' = nextCap + 1
    /\ calls' = Append(calls, Call("run", nextCap, TRUE))
    /\ IF p.Post = 0
       THEN ReturnStop(nextCap)
       ELSE /\ pc' = "post"
            /\ UNCHANGED ret

\* Run, lines 85-88: the RunFunc is called; calling a nil RunFunc panics
RunStart ==
    /\ pc = "run"
    /\ IF p.Run = "nil"
       THEN /\ pc' = "panic"
            /\ UNCHANGED <<runStop, ret, calls, live, nextCap>>
       ELSE \E ok \in BOOLEAN : IF ok THEN RunStarted ELSE RunFailed
    /\ UNCHANGED <<fs, now, p, stop, err, lastBuild, i, stopCount, since, got, written>>

\* PostFailed without the call of stop
PostFailedNoStop ==
    /\ UNCHANGED <<stopCount, live>>
    /\ calls' = Append(calls, Call("post", i, FALSE))
    /\ ret' = Return(0, Error("post", i))
    /\ pc' = "returned"
    /\ UNCHANGED i

\* PostFailed returning the stop function it has just called
PostFailedKeepsStop ==
    /\ StopCalled(runStop)
    /\ calls' = calls \o <<Call("post", i, FALSE), Call("stop", runStop, TRUE)>>
    /\ ret' = Return(runStop, Error("post", i))
    /\ pc' = "returned"
    /\ UNCHANGED i

\* Run, lines 91-94: a post BuildFunc returned an error
PostFailed ==
    /\ StopCalled(runStop)
    /\ calls' = calls \o <<Call("post", i, FALSE), Call("stop", runStop, TRUE)>>
    /\ ret' = Return(0, Error("post", i))
    /\ pc' = "returned"
    /\ UNCHANGED i

\* Run, lines 89-90 and 95-96: a post BuildFunc returned nil
PostSucceeded ==
    /\ calls' = Append(calls, Call("post", i, TRUE))
    /\ IF i = p.Post
       THEN /\ ReturnStop(runStop)
            /\ UNCHANGED i
       ELSE /\ i' = i + 1
            /\ UNCHANGED <<ret, pc>>
    /\ UNCHANGED <<stopCount, live>>

\* Run, lines 89-96: one post BuildFunc is called
RunPost ==
    /\ pc = "post"
    /\ \E ok \in BOOLEAN : IF ok THEN PostSucceeded ELSE PostFailed
    /\ UNCHANGED <<fs, now, p, stop, err, lastBuild, runStop, nextCap, since, got, written>>

\* AssignResults keeping the previous stop function when Run failed
AssignResultsOnSuccess ==
    /\ stop' = IF ret.err = Nil THEN ret.stop ELSE stop
    /\ err' = ret.err

\* Poll, line 141: stop, err = Run(...)
AssignResults ==
    /\ stop' = ret.stop
    /\ err' = ret.err

\* SetLastBuild moving the watermark only after a successful Run
SetLastBuildOnSuccess == lastBuild' = IF ret.err = Nil THEN now ELSE lastBuild

\* Poll, line 145: lastBuild = time.Now()
SetLastBuild == lastBuild' = now

\* Poll, lines 141-146: Run has returned
PollAssign ==
    /\ pc = "returned"
    /\ AssignResults
    /\ SetLastBuild
    /\ pc' = "sleepBuilt"
    /\ ret' = NoRet
    /\ i' = 0
    /\ runStop' = 0
    /\ calls' = <<>>
    /\ written' = {}
    /\ UNCHANGED <<fs, now, p, stopCount, live, nextCap, since, got>>

(***************************************************************************)
(* The environment of Poll                                                 *)
(***************************************************************************)
Tick ==
    /\ now < MaxTime
    /\ now' = now + 1
    /\ UNCHANGED <<fs, since, got, written>>
    /\ UNCHANGED pollVars

\* A pipeline execution is in progress: from the scan that found a change
\* to the assignment of Run's results
Building == pc \in {"changed", "pre", "run", "post", "returned"}

\* A write made while a pipeline execution is in progress is remembered
Noted(path) == written' = IF Building THEN written \cup {path} ELSE written

\* A file of the tree is written
WriteFile ==
    /\ \E path \in DOMAIN fs :
         /\ ~IsDir(fs[path])
         /\ fs' = [fs EXCEPT ![path].mtime = now]
         /\ Noted(path)
    /\ UNCHANGED <<now, since, got>>
    /\ UNCHANGED pollVars

\* A file is created in a directory of the tree
CreateFile ==
    /\ Cardinality(DOMAIN fs) < MaxEntries
    /\ \E dir \in DOMAIN fs :
         /\ IsDir(fs[dir])
         /\ LET path == Append(dir, Cardinality(ChildNames(fs, dir)) + 1)
            IN  /\ fs' = [q \in DOMAIN fs \cup {path} |->
                         IF q = path THEN Entry("file", now, "none")
                         ELSE IF q = dir THEN [fs[q] EXCEPT !.mtime = now]
                         ELSE fs[q]]
               /\ Noted(path)
    /\ UNCHANGED <<now, since, got>>
    /\ UNCHANGED pollVars

\* The launched process exits on its own
ProcExit ==
    /\ \E c \in live : live' = live \ {c}
    /\ UNCHANGED <<fs, now, p, pc, stop, err, lastBuild, i, runStop, ret, calls,
                   stopCount, nextCap, since, got, written>>

EmptyDir == [q \in {<<>>} |-> Entry("dir", 1, "none")]

NestedFile ==
    [q \in {<<>>, <<1>>, <<1, 1>>} |->
       Entry(IF q = <<1, 1>> THEN "file" ELSE "dir", 1, "none")]

PollInit(pp) ==
    /\ p = pp
    /\ pc = "scan"
    /\ stop = 0
    /\ err = Nil
    /\ lastBuild = 0
    /\ i = 0
    /\ runStop = 0
    /\ ret = NoRet
    /\ calls = <<>>
    /\ stopCount = [c \in 1..MaxCaps |-> 0]
    /\ live = {}
    /\ nextCap = 1

Init ==
    /\ fs \in {EmptyDir, NestedFile}
    /\ now = 1
    /\ \E pp \in [Dir : {"", "."}, Pre : 0..MaxSteps, Run : {"nil", "cmd"},
                  Post : 0..MaxSteps] : PollInit(pp)
    /\ since = 0
    /\ got = NotCalled
    /\ written = {}

Next ==
    \/ PollScan
    \/ PollSleep
    \/ PollStop
    \/ RunPre
    \/ RunStart
    \/ RunPost
    \/ PollAssign
    \/ Tick
    \/ WriteFile
    \/ CreateFile
    \/ ProcExit

Spec == Init /\ [][Next]_vars

\* Poll's thread keeps running: a sleep ends, a scan is made, and every
\* BuildFunc and RunFunc that is called returns.
FairSpec ==
    /\ Spec
    /\ WF_vars(PollScan)
    /\ WF_vars(PollSleep)
    /\ WF_vars(PollStop)
    /\ WF_vars(RunPre)
    /\ WF_vars(RunStart)
    /\ WF_vars(RunPost)
    /\ WF_vars(PollAssign)

(***************************************************************************)
(* DidChange on its own: a tree is built, entry by entry, and DidChange is *)
(* called on it once with some `since`.                                    *)
(***************************************************************************)
\* The entries a tree can hold: an entry whose Lstat fails has no FileInfo,
\* and only a directory can fail to be read.
Entries ==
    {e \in [kind : Kinds, mtime : Times, err : {"none", "lstat", "readdir"}] :
        /\ e.err = "readdir" => e.kind = "dir"
        /\ e.err = "lstat" => e.kind = "file" /\ e.mtime = 1}

TreeAdd ==
    /\ pc = "test"
    /\ got = NotCalled
    /\ Cardinality(DOMAIN fs) < MaxNodes
    /\ \E dir \in DOMAIN fs, e \in Entries :
         /\ IsDir(fs[dir])
         /\ fs[dir].err # "lstat"
         /\ LET path == Append(dir, Cardinality(ChildNames(fs, dir)) + 1)
            IN  fs' = [q \in DOMAIN fs \cup {path} |-> IF q = path THEN e ELSE fs[q]]
    /\ UNCHANGED <<now, since, got, written>>
    /\ UNCHANGED pollVars

TestDidChange ==
    /\ pc = "test"
    /\ got = NotCalled
    /\ \E t \in 0..MaxTime :
         /\ since' = t
         /\ got' = [called |-> TRUE, changed |-> DidChange(fs, ".", t)]
    /\ UNCHANGED <<fs, now, written>>
    /\ UNCHANGED pollVars

InitDidChange ==
    /\ \E e \in Entries : IsDir(e) /\ fs = [q \in {<<>>} |-> e]
    /\ now = MaxTime
    /\ p = [Dir |-> ".", Pre |-> 0, Run |-> "nil", Post |-> 0]
    /\ pc = "test"
    /\ stop = 0
    /\ err = Nil
    /\ lastBuild = 0
    /\ i = 0
    /\ runStop = 0
    /\ ret = NoRet
    /\ calls = <<>>
    /\ stopCount = [c \in 1..MaxCaps |-> 0]
    /\ live = {}
    /\ nextCap = 1
    /\ since = 0
    /\ got = NotCalled
    /\ written = {}

NextDidChange ==
    \/ TreeAdd
    \/ TestDidChange

SpecDidChange == InitDidChange /\ [][NextDidChange]_vars

(***************************************************************************)
(* Properties of Run                                                       *)
(***************************************************************************)
\* The positions in `calls` of the calls of one kind
CallsOf(op) == {k \in DOMAIN calls : calls[k].op = op}

\* Run has returned to Poll, which has not yet assigned the results
Returned == pc = "returned"

\* C1: whenever Run returns an error, every process this invocation started
\* has had its stop function called, after the start, and is not running.
C1_NoProcessLeftOnError ==
    (Returned /\ ret.err # Nil) =>
        \A k \in CallsOf("run") :
            calls[k].ok =>
                /\ \E j \in CallsOf("stop") : j > k /\ calls[j].idx = calls[k].idx
                /\ calls[k].idx \notin live

\* Run returned an error after its RunFunc had started a process
C1_Witness ==
    /\ Returned
    /\ ret.err # Nil
    /\ \E k \in CallsOf("run") : calls[k].ok
    /\ p.Pre > 0

\* C2: a failing pre-step is the last call Run makes (no later pre-step, no
\* run, no post-step, no stop), every earlier call succeeded, and Run returns
\* that step's error with a nil stop.
C2_PreFailureAborts ==
    \A k \in CallsOf("pre") :
        ~calls[k].ok =>
            /\ k = Len(calls)
            /\ Returned
            /\ ret = Return(0, Error("pre", calls[k].idx))
            /\ calls[k].idx = Cardinality(CallsOf("pre"))
            /\ \A j \in 1..(k - 1) : calls[j].op \in {"pre", "pollstop"} /\ calls[j].ok
            /\ CallsOf("run") \cup CallsOf("post") \cup CallsOf("stop") = {}

\* The first of two pre-steps failed
C2_Witness ==
    /\ Returned
    /\ ret.err = Error("pre", 1)
    /\ p.Pre = 2
    /\ p.Post > 0

\* C3: a failing post-step is followed by exactly one call of the stop
\* function the RunFunc returned and by nothing else; Run then returns the
\* post-step's error with a nil stop.
C3_PostFailureStops ==
    \A k \in CallsOf("post") :
        ~calls[k].ok =>
            /\ Len(calls) = k + 1
            /\ runStop # 0
            /\ calls[k + 1] = Call("stop", runStop, TRUE)
            /\ \E j \in 1..(k - 1) : calls[j] = Call("run", runStop, TRUE)
            /\ CallsOf("stop") = {k + 1}
            /\ stopCount[runStop] = 1
            /\ calls[k].idx = Cardinality(CallsOf("post"))
            /\ Returned
            /\ ret = Return(0, Error("post", calls[k].idx))

\* The first of two post-steps failed
C3_Witness ==
    /\ Returned
    /\ ret.err = Error("post", 1)
    /\ p.Post = 2
    /\ stopCount[runStop] = 1

\* C4: a RunFunc that fails to start is the last call Run makes: no post-step
\* and no stop function is called, and Run returns the RunFunc's error with a
\* nil stop.
C4_RunFailureAborts ==
    \A k \in CallsOf("run") :
        ~calls[k].ok =>
            /\ k = Len(calls)
            /\ Returned
            /\ ret = Return(0, Error("run", 0))
            /\ CallsOf("post") \cup CallsOf("stop") = {}
            /\ Cardinality(CallsOf("pre")) = p.Pre
            /\ \A j \in CallsOf("pre") : calls[j].ok

\* The RunFunc failed after the pre-steps, with post-steps configured
C4_Witness ==
    /\ Returned
    /\ ret.err = Error("run", 0)
    /\ p.Pre > 0
    /\ p.Post > 0

\* C5: when every call succeeded Run returns a nil error and the stop
\* function of the process it started, which it has not called, and it has
\* called each pre-step and each post-step exactly once; it returns a nil
\* error in no other case.
C5_SuccessReturnsStop ==
    Returned =>
        /\ ret.err = Nil <=> \A k \in DOMAIN calls : calls[k].ok
        /\ (\A k \in DOMAIN calls : calls[k].ok) =>
             /\ ret.stop # 0
             /\ \E k \in CallsOf("run") :
                  /\ CallsOf("run") = {k}
                  /\ calls[k] = Call("run", ret.stop, TRUE)
             /\ stopCount[ret.stop] = 0
             /\ CallsOf("stop") = {}
             /\ \A n \in 1..p.Pre :
                  Cardinality({k \in CallsOf("pre") : calls[k].idx = n}) = 1
             /\ Cardinality(CallsOf("pre")) = p.Pre
             /\ \A n \in 1..p.Post :
                  Cardinality({k \in CallsOf("post") : calls[k].idx = n}) = 1
             /\ Cardinality(CallsOf("post")) = p.Post

\* Run succeeded with no pre-step and the largest number of post-steps
C5_Witness ==
    /\ Returned
    /\ ret.err = Nil
    /\ p.Pre = 0
    /\ p.Post = MaxSteps

(***************************************************************************)
(* Properties of Poll                                                      *)
(***************************************************************************)
\* The processes started so far
Started == 1..(nextCap - 1)

\* The started processes whose stop function has not been called
Unstopped == {c \in Started : stopCount[c] = 0}

\* Some entry of the tree that is not a directory is newer than t
NewerThan(t) == \E path \in DOMAIN fs : ~IsDir(fs[path]) /\ fs[path].mtime > t

\* C6: at most one started process is running and at most one started
\* process has a stop function that was never called, so a RunFunc is never
\* started while an earlier process has not been stopped.
C6_AtMostOneProcess ==
    /\ Cardinality(live) <= 1
    /\ Cardinality(Unstopped) <= 1
    /\ live \subseteq Unstopped

\* A second process is running after the first one was stopped
C6_Witness ==
    /\ nextCap = 3
    /\ live = {2}
    /\ stopCount[1] = 1

\* C7: no stop function is called more than once, and one that has not been
\* called is still held: by Poll's `stop`, or by the Run in progress.
C7_StopExactlyOnce ==
    \A c \in Started :
        /\ stopCount[c] <= 1
        /\ stopCount[c] = 0 => c \in {stop, runStop, ret.stop}

\* The only process started so far was stopped by Run after a post-step
\* failure, and a later pipeline execution is past Poll's stop of the old app
C7_Witness ==
    /\ err.phase = "post"
    /\ pc = "run"
    /\ nextCap = 2
    /\ stopCount[1] = 1

\* C8: a scan that finds no change goes to sleep and leaves the watermark,
\* the held stop function and the processes alone; when Poll has assigned
\* Run's results no file is newer than the watermark, and a scan goes on to a
\* build only if some file is newer than the watermark.
C8_NoChangeNoBuild ==
    [][/\ (pc = "scan" /\ pc' # pc /\ ~DidChange(fs, p.Dir, lastBuild)) =>
             /\ pc' = "sleepIdle"
             /\ UNCHANGED <<lastBuild, stop, err, live, stopCount, nextCap, calls>>
       /\ (pc = "returned" /\ pc' # pc) => ~NewerThan(lastBuild)'
       /\ (pc = "scan" /\ pc' = "changed") => NewerThan(lastBuild)
      ]_vars

\* Poll sleeps after a scan that found no change, an app being held
C8_Witness ==
    /\ pc = "sleepIdle"
    /\ p.Dir = "."
    /\ lastBuild > 0
    /\ stop # 0
    /\ NewerThan(0)

\* C9: when Run returned an error Poll goes on to its sleep and its next
\* scan, holds no stop function, and has moved the watermark to the time read
\* after Run returned, which no file is newer than; after a failure a scan
\* goes on to a build only if some file is newer than the watermark.
C9_FailureKeepsPolling ==
    [][/\ (pc = "returned" /\ ret.err # Nil /\ pc' # pc) =>
             /\ pc' = "sleepBuilt"
             /\ stop' = 0
             /\ err' = ret.err
             /\ lastBuild' = now
             /\ ~DidChange(fs', ".", lastBuild')
       /\ (pc = "sleepBuilt" /\ err # Nil /\ pc' # pc) => pc' = "scan"
       /\ (pc = "scan" /\ err # Nil /\ pc' = "changed") =>
             /\ NewerThan(lastBuild)
             /\ stop = 0
      ]_vars

\* After a failed pipeline execution a later scan has found a newer file
C9_Witness ==
    /\ pc = "changed"
    /\ err # Nil
    /\ stop = 0
    /\ lastBuild > 0

(***************************************************************************)
(* Properties of DidChange                                                 *)
(***************************************************************************)
NoTraversalError == \A q \in DOMAIN fs : fs[q].err = "none"

\* C10 as stated: without traversal errors DidChange is true exactly when
\* some regular file of the tree, at any depth, has a modification time
\* strictly after `since`.
C10_RegularFilesOnly ==
    (got.called /\ NoTraversalError) =>
        (got.changed <=>
            \E q \in DOMAIN fs : fs[q].kind = "file" /\ fs[q].mtime > since)

\* C10 as amended: without traversal errors DidChange is true exactly when
\* some entry of the tree that is not a directory (a regular file, a symbolic
\* link, any other non-directory), at any depth, has a modification time
\* strictly after `since`.
C10_NonDirectories ==
    (got.called /\ NoTraversalError) =>
        (got.changed <=>
            \E q \in DOMAIN fs : fs[q].kind # "dir" /\ fs[q].mtime > since)

\* DidChange reported a regular file in a subdirectory that is newer than
\* `since`
C10_Witness ==
    /\ got.called
    /\ NoTraversalError
    /\ got.changed
    /\ \E q \in DOMAIN fs : Len(q) = 2 /\ fs[q].kind = "file" /\ fs[q].mtime > since

\* C11: on a tree that holds only directories DidChange is false for every
\* `since`, also one earlier than the directories' modification times.
C11_DirectoriesIgnored ==
    (got.called /\ \A q \in DOMAIN fs : IsDir(fs[q])) => ~got.changed

\* DidChange was called on nested directories, all readable, one of them
\* in a subdirectory and newer than `since`
C11_Witness ==
    /\ got.called
    /\ NoTraversalError
    /\ \A q \in DOMAIN fs : IsDir(fs[q])
    /\ \E q \in DOMAIN fs : Len(q) = 2 /\ fs[q].mtime > since
    /\ fs[<<>>].mtime > since

\* C12: with the watched directory itself readable, a non-directory entry
\* that is readable and newer than `since` makes DidChange true, whichever
\* other entries of the tree fail.
C12_ErrorsSkipped ==
    (/\ got.called
     /\ fs[<<>>].err = "none"
     /\ \E q \in DOMAIN fs :
          /\ ~IsDir(fs[q])
          /\ fs[q].err = "none"
          /\ \A n \in 0..(Len(q) - 1) : fs[SubSeq(q, 1, n)].err = "none"
          /\ fs[q].mtime > since)
    => got.changed

\* C13: with an empty Dir every scan is a scan of ".": a scan made while a
\* file under "." is newer than the watermark goes on to the build.
C13_EmptyDirScansCurrent ==
    [][(/\ pc = "scan"
        /\ pc' # pc
        /\ p.Dir = ""
        /\ DidChange(fs, DefaultDir(p.Dir), lastBuild))
       => pc' = "changed"]_vars

\* C14: with a nil RunFunc Run returns to its caller: it never panics.
C14_NilRunReturns == p.Run = "nil" => pc # "panic"

\* The calls of one kind made before position k
Before(op, k) == {j \in CallsOf(op) : j < k}

\* C15: in one pipeline execution the k-th pre call is the call of pre-step k
\* and follows only successful pre calls; the RunFunc is called at most once,
\* after every pre-step has been called once and succeeded; the k-th post
\* call is the call of post-step k and follows a successful start and only
\* successful post calls; nothing is called after a failure.
C15_PhasesInOrder ==
    /\ \A k \in CallsOf("pre") :
         /\ calls[k].idx = Cardinality(Before("pre", k)) + 1
         /\ calls[k].idx <= p.Pre
         /\ \A j \in 1..(k - 1) : calls[j].op \in {"pre", "pollstop"} /\ calls[j].ok
    /\ \A k \in CallsOf("run") :
         /\ Before("run", k) = {}
         /\ Cardinality(Before("pre", k)) = p.Pre
         /\ CallsOf("pre") = Before("pre", k)
         /\ Before("post", k) = {}
    /\ \A k \in CallsOf("post") :
         /\ calls[k].idx = Cardinality(Before("post", k)) + 1
         /\ calls[k].idx <= p.Post
         /\ \E j \in Before("run", k) : calls[j].ok
         /\ \A j \in Before("post", k) : calls[j].ok
    /\ \A k \in DOMAIN calls :
         (calls[k].op # "stop" /\ ~calls[k].ok) =>
             \A j \in DOMAIN calls : j > k => calls[j].op = "stop" /\ j = k + 1
    /\ pc = "run" => Cardinality(CallsOf("pre")) = p.Pre /\ CallsOf("run") = {}
    /\ pc = "post" => \E k \in CallsOf("run") : calls[k].ok

\* A pipeline execution with two pre-steps and two post-steps has made all
\* its five calls
C15_Witness ==
    /\ Returned
    /\ ret.err = Nil
    /\ p.Pre = 2
    /\ p.Post = 2
    /\ Cardinality(CallsOf("pre") \cup CallsOf("run") \cup CallsOf("post")) = 5

\* A pipeline execution is in progress: from Poll's call of Run to the
\* assignment of its results
InPipeline == pc \in {"pre", "run", "post", "returned"}

\* C16: during a pipeline execution, Poll's call of the stop function it
\* held is the first call made when it held one, and no such call is made
\* when it held none; the only process that can be running is the one this
\* execution started, and every earlier process has been stopped.
C16_OldAppStoppedFirst ==
    InPipeline =>
        /\ stop # 0 => /\ Len(calls) >= 1
                       /\ calls[1] = Call("pollstop", stop, TRUE)
                       /\ stopCount[stop] = 1
        /\ stop = 0 => CallsOf("pollstop") = {}
        /\ CallsOf("pollstop") \subseteq {1}
        /\ live \subseteq {runStop}
        /\ \A c \in Started : c # runStop => stopCount[c] = 1

\* A pre-step has been called after Poll stopped the app it held
C16_Witness ==
    /\ pc = "pre"
    /\ stop # 0
    /\ Len(calls) = 2
    /\ calls[1] = Call("pollstop", stop, TRUE)
    /\ calls[2].op = "pre"

\* C17: until the first pipeline execution has completed (zero watermark, no
\* stop function, no error) a scan goes on to the build exactly when the
\* tree holds a file, every file being newer than the zero time.
C17_FirstScanBuilds ==
    [][(pc = "scan" /\ pc' # pc /\ lastBuild = 0 /\ stop = 0 /\ err = Nil)
       => (pc' = "changed" <=> NewerThan(0))]_vars

\* C18: whenever a file is newer than the watermark a pipeline execution is
\* in progress or begins later (the crash of Run on a nil RunFunc is left
\* out of the statement).
C18_ChangeEventuallyBuilt ==
    (NewerThan(lastBuild) /\ pc # "panic") ~> (Building \/ pc = "panic")

\* C19: when Poll sets the watermark after a pipeline execution, every file
\* written during that execution, at a time before the one Poll now reads,
\* is newer than the watermark, so that the next scan starts another
\* execution with no further write.
C19_NoWriteLost ==
    [][(pc = "returned" /\ pc' # pc)
       => \A path \in written :
            fs[path].mtime < now => fs'[path].mtime > lastBuild']_vars

\* C20: the exit of a process on its own changes nothing in Poll; a build
\* begins only when a file is newer than the watermark; and when it begins,
\* Poll calls the stop function it holds, also when its process has exited.
C20_ExitNotMonitored ==
    [][/\ (live' # live /\ stopCount' = stopCount /\ nextCap' = nextCap) =>
             UNCHANGED <<pc, stop, err, lastBuild, calls, ret>>
       /\ (pc = "scan" /\ pc' = "changed" /\ stop # 0) => NewerThan(lastBuild)
       /\ (pc = "changed" /\ pc' # pc /\ stop # 0) =>
             /\ stopCount'[stop] = stopCount[stop] + 1
             /\ calls' = <<Call("pollstop", stop, TRUE)>>
             /\ pc' \in {"pre", "run"}
      ]_vars

\* The process Poll holds has exited on its own without its stop function
\* ever being called, Poll still holds that function, and a scan has found
\* a change
C20_Witness ==
    /\ pc = "changed"
    /\ stop # 0
    /\ stop \notin live
    /\ stopCount[stop] = 0
    /\ lastBuild > 0

====
